---- MODULE Spec2Model ----
(***************************************************************************)
(* Fiber job scheduler of BudEngine (src/threading/bud.threading.cpp):     *)
(* Counter, Fiber, LockFreeFiberPool, Worker queues and TaskScheduler.     *)
(* Every atomic access to shared memory (pool head, waiting-list head,     *)
(* counter value, queue, main-thread FIFO and its mutex) is one step.      *)
(* Thread 0 is the application's main thread (Worker 0); threads 1..N-1    *)
(* run worker_loop.                                                        *)
(***************************************************************************)
EXTENDS Integers, Sequences, FiniteSets, TLC

\* ---------------------------------------------------------------- bounds
NumThreads == 2
PoolSize == 4
MaxTasks == 6
MaxJoin == 2
MaxCount == 3
MaxChunk == 2
NumCounters == 2
\* size_t is taken SizeBits wide
SizeBits == 3
\* stack_mem: sizes 0 .. MaxStackSize bytes, at the addresses 4096 ..
\* 4096 + MaxBaseOffset
MaxStackSize == 320
MaxBaseOffset == 15

Null == 0
Threads == 0 .. (NumThreads - 1)
Counters == 1 .. NumCounters
Fibers == 1 .. (PoolSize + MaxTasks)
TaskIds == 1 .. MaxTasks

Min(a, b) == IF a < b THEN a ELSE b

\* size_t arithmetic wraps around
SizeMod == 2 ^ SizeBits
SizeMax == SizeMod - 1

\* ------------------------------------------------- client code (closures)
\* An operation of client code: a call into the scheduler's public API, or
\* the closure's own side effect.  k names the closure given to spawn /
\* submit_main_thread_task, c the Counter (Null: none), a and b numbers.
Op(o, k, c, a, b) == [op |-> o, k |-> k, c |-> c, a |-> a, b |-> b]
Effect == Op("effect", 0, 0, 0, 0)

K_LEAF == 1
K_WAITER == 2
K_NESTED == 3
K_LOADER == 4
K_ASYNC == 5
K_PINNED == 6
K_RANGE == 7
K_HANDOFF == 8

\* The work closure of kind k.
Code(k) ==
    CASE k = K_LEAF   -> << Effect >>
      [] k = K_WAITER -> << Op("wait", 0, 1, 0, 0), Effect >>
      [] k = K_NESTED -> << Op("spawn", K_LEAF, 2, 0, 0), Op("wait", 0, 2, 0, 0), Effect >>
      [] k = K_LOADER -> << Op("spawn", K_LEAF, 0, 0, 0), Op("submit", K_LEAF, 0, 0, 0), Effect >>
      [] k = K_ASYNC  -> << Op("submit", K_PINNED, 0, 0, 0), Effect >>
      [] k = K_PINNED -> << Op("wait", 0, 1, 0, 0), Effect >>
      [] k = K_RANGE  -> << Op("body", 0, 0, 0, 0) >>
      [] k = K_HANDOFF -> << Op("submit", K_LEAF, 1, 0, 0), Effect >>
      [] OTHER        -> << >>

\* Programs of the root context (the application's main thread).
Spawn(k, c) == Op("spawn", k, c, 0, 0)
Submit(k, c) == Op("submit", k, c, 0, 0)
Wait(c) == Op("wait", 0, c, 0, 0)
WaitIdle(c) == Op("wait", 0, c, 1, 0)
Store(c, v) == Op("store", 0, c, v, 0)
FetchSub(c, n) == Op("fsub", 0, c, n, 0)
Load(c) == Op("load", 0, c, 0, 0)
PFor(count, chunk, c) == Op("pfor", 0, c, count, chunk)
Bind == Op("init", 0, 0, 0, 0)
Pump == Op("pump", 0, 0, 0, 0)
Stop == Op("stop", 0, 0, 0, 0)
Destroy == Op("destroy", 0, 0, 0, 0)

\* n plain tasks under a fresh Counter, a load, the wait, a load.
JoinProgram(n) ==
    << Bind >> \o [i \in 1 .. n |-> Spawn(K_LEAF, 1)] \o << Load(1), Wait(1), Load(1), Stop >>

\* ParallelFor under a fresh Counter, then the wait.
ForProgram(count, chunk) == << Bind, PFor(count, chunk, 1), Wait(1) >>

JoinPrograms == { JoinProgram(n) : n \in 0 .. MaxJoin }

\* n plain tasks pushed on Worker 0's queue by a main thread that then takes
\* none of them itself; it may stop the scheduler.
QueueProgram(n, tail) == << Bind >> \o [i \in 1 .. n |-> Spawn(K_LEAF, 1)] \o tail

StealPrograms == { QueueProgram(n, tail) : n \in 1 .. MaxJoin, tail \in {<< >>, << Stop >>} }

\* Frames of the main thread: pinned and ordinary tasks, then the pump.
PumpPrograms ==
    { << Submit(K_LEAF, 0), Bind, Spawn(K_NESTED, 0), Pump >>,
      << Bind, Spawn(K_HANDOFF, 0), Pump, Pump >>,
      << Bind, Spawn(K_WAITER, 0), WaitIdle(1), Pump >>,
      << Submit(K_LEAF, 0), Bind, Submit(K_LEAF, 0), Spawn(K_HANDOFF, 0), Pump, Pump >> }

\* More tasks in flight than the pool has fibers: PoolSize pinned tasks wait
\* in the FIFO when one more is spawned or submitted.
ExhaustProgram(last) ==
    [i \in 1 .. PoolSize |-> Submit(K_LEAF, 1)] \o << Bind, last, Pump, Wait(1) >>

ExhaustPrograms == { ExhaustProgram(last) : last \in {Spawn(K_LEAF, 1), Submit(K_LEAF, 1)} }

\* Fibers that wait for a Counter while the tasks under it complete: two
\* waiters and one task; one waiter beside two tasks and a task without a
\* Counter.
DrainPrograms ==
    { << Bind, Spawn(K_LEAF, 1), Spawn(K_WAITER, 0), Spawn(K_WAITER, 0), Pump >>,
      << Bind, Spawn(K_LEAF, 1), Spawn(K_LEAF, 1), Spawn(K_WAITER, 0), Spawn(K_LEAF, 0), Pump >> }

\* The root context and a fiber wait for the same Counter.
WaitPrograms == { << Bind, Spawn(K_LEAF, 1), Spawn(K_WAITER, 0), Wait(1), Pump >> }

\* A task whose completion hands a pinned task under the same Counter to the
\* main thread, and the root's wait for that Counter.
PinnedPrograms == { << Bind, Spawn(K_HANDOFF, 1), Wait(1) >> }

Programs ==
    JoinPrograms
    \cup { ForProgram(count, chunk) : count \in 0 .. MaxCount, chunk \in 1 .. MaxChunk }
    \cup { \* one chunk for the whole range: chunk_size = SIZE_MAX
           ForProgram(MaxChunk, SizeMax) }
    \cup { \* a task that spawns a child under its own Counter and joins it
           << Bind, Spawn(K_NESTED, 1), Wait(1), Pump >>,
           \* the same join on a Counter that an earlier task has used
           << Bind, Spawn(K_LEAF, 2), Spawn(K_NESTED, 0), Pump >>,
           \* a Counter used for a second round of tasks, with a fiber waiting
           << Bind, Spawn(K_LEAF, 1), Wait(1), Spawn(K_LEAF, 1), Spawn(K_WAITER, 0), Pump, Wait(1) >>,
           \* a worker task handing a continuation to the main thread
           << Bind, Spawn(K_ASYNC, 0), Spawn(K_LEAF, 1), Pump, Wait(1), Pump >>,
           \* asset-loader shape: a task that spawns and submits, beside a join
           << Bind, Spawn(K_LOADER, 0), Spawn(K_NESTED, 0), Pump, Spawn(K_LEAF, 0), Pump >>,
           \* a pinned task queued before the main thread is bound
           << Submit(K_LEAF, 1), Bind, Spawn(K_NESTED, 0), Spawn(K_LEAF, 2), Spawn(K_WAITER, 0),
              Wait(2), Spawn(K_LEAF, 0), Pump >>,
           \* a root wait with an on_idle callback
           << Bind, Spawn(K_LEAF, 1), WaitIdle(1) >>,
           \* a Counter used as a latch: set and released by the caller
           << Bind, Store(1, 1), Spawn(K_WAITER, 0), Pump, FetchSub(1, 1), Pump >>,
           \* a thread that is not bound submits while a task of its does too
           << Spawn(K_HANDOFF, 0), Submit(K_LEAF, 0), Bind, Pump >>,
           \* the scheduler is destroyed at the end of the application
           << Bind, Spawn(K_LEAF, 0), Pump, Destroy >>,
           \* a Counter taken below 0 by the caller, waited for by a task and
           \* by the root context
           << Bind, FetchSub(1, 1), Spawn(K_WAITER, 0), Pump, Wait(1) >> }
    \cup PinnedPrograms

\* ------------------------------------------------------------------ state
VARIABLES
    prog,      \* the root program being run by the main thread
    rootip,    \* position of the main thread in prog
    value,     \* Counter::value
    wlist,     \* Counter::waiting_list (head)
    fib,       \* Fiber fields: work, signal_counter, is_finished,
               \*   next_waiting, next_pool, pending_wait_counter, rsp
    nfib,      \* number of Fiber objects constructed so far
    phead,     \* LockFreeFiberPool::head
    queue,     \* Worker::queue, bottom (owner end) last
    fifo,      \* main_thread_incoming_queue
    mtx,       \* main_queue_mtx: Null, or Holder(t) of the thread holding it
    running,   \* TaskScheduler::running
    workers,   \* TaskScheduler::workers: which Worker objects have not been deleted
    tsched,    \* t_scheduler set on this thread
    cur,       \* t_current_fiber
    pc,        \* position of each thread
    ctx,       \* which scheduler loop the thread's execute_task returns to
    loc,       \* locals of the function the thread is in
    rt,        \* closure and position the thread is executing inside a fiber
    task,      \* the closures handed to spawn / submit, by task id
    ntask,     \* number of closures handed over so far
    crashed,   \* the process has faulted
    stack,     \* one Fiber's stack_mem and rsp, with what Fiber::reset wrote
    \* history variables (not program state)
    ran,       \* times each closure's side effect was performed
    dec,       \* times each closure's fiber did its completion decrement
    wz,        \* per waiter (0: root): the Counter it waits on, and whether
               \*   the Counter has been 0 at some moment since the call
    spurious,  \* waiters that went on without the Counter having been 0
    held,      \* pool hand-outs minus returns, per fiber
    calls,     \* invocations of the ParallelFor body, per task
    where,     \* <<thread, loop>> pairs that executed part of a closure
    loaded,    \* the root program's Counter::load results, each with its place
               \*   in prog and the decrements done on the Counter before it
    note       \* idle: on_idle was called in the current round of the root
               \*   wait loop; subm: another thread has been inside
               \*   submit_main_thread_task's locked section during the
               \*   current pump_main_thread_tasks; dead: a thread has
               \*   probed the queue of a Worker that had been deleted

vars == << prog, rootip, value, wlist, fib, nfib, phead, queue, fifo, mtx,
           running, workers, tsched, cur, pc, ctx, loc, rt, task, ntask, crashed,
           stack, ran, dec, wz, spurious, held, calls, where, loaded, note >>

\* rsp: ip = 0 is the entry frame written by Fiber::reset, ip > 0 the
\* position after the wait_for_counter that switched out, ip = -1 the final
\* switch of fiber_entry_stub.
Entry == [task |-> 0, ip |-> 0]
Finished == [task |-> 0, ip |-> -1]

NewFiber == [work |-> Null, sig |-> Null, fin |-> FALSE, nw |-> Null,
             np |-> Null, pend |-> Null, rsp |-> Entry]

NoLoc == [f |-> Null, nf |-> Null, id |-> 0, old |-> Null, nxt |-> Null,
          c |-> Null, wl |-> Null, i |-> 0, pi |-> 0, wc |-> Null]
NoWait == [c |-> Null, z |-> FALSE]
NoTask == [k |-> 0, c |-> Null, a |-> 0, b |-> 0, by |-> 0, via |-> "none"]

\* Fiber::Fiber(stack_size): stack_mem.resize(stack_size).  base is
\* stack_mem.data(); rsp, sp and the written slots are addresses.
NewStack(base, size, os) ==
    [base |-> base, size |-> size, os |-> os, at |-> "new", rsp |-> 0,
     slots |-> {}, oob |-> FALSE, sp |-> 0, ip |-> "none"]

\* TaskScheduler::TaskScheduler: n * MAX_FIBERS_PER_THREAD fibers pushed one
\* after the other, n empty workers, threads 1..n-1 started on worker_loop.
InitSched(P) ==
    /\ prog \in P
    /\ rootip = 1
    /\ value = [c \in Counters |-> 0]
    /\ wlist = [c \in Counters |-> Null]
    /\ fib = [f \in Fibers |-> [NewFiber EXCEPT !.np = IF f <= PoolSize THEN f - 1 ELSE Null]]
    /\ nfib = PoolSize
    /\ phead = PoolSize
    /\ queue = [w \in Threads |-> << >>]
    /\ fifo = << >>
    /\ mtx = Null
    /\ running = TRUE
    /\ workers = [w \in Threads |-> TRUE]
    /\ tsched = [t \in Threads |-> FALSE]
    /\ cur = [t \in Threads |-> Null]
    /\ pc = [t \in Threads |-> IF t = 0 THEN "run" ELSE "start"]
    /\ ctx = [t \in Threads |-> IF t = 0 THEN "root" ELSE "loop"]
    /\ loc = [t \in Threads |-> NoLoc]
    /\ rt = [t \in Threads |-> Entry]
    /\ task = [i \in TaskIds |-> NoTask]
    /\ ntask = 0
    /\ crashed = FALSE
    /\ ran = [i \in TaskIds |-> 0]
    /\ dec = [i \in TaskIds |-> 0]
    /\ wz = [i \in 0 .. MaxTasks |-> NoWait]
    /\ spurious = {}
    /\ held = [f \in Fibers |-> 0]
    /\ calls = [i \in TaskIds |-> << >>]
    /\ where = [i \in TaskIds |-> {}]
    /\ loaded = << >>
    /\ note = [idle |-> FALSE, subm |-> FALSE, dead |-> FALSE]

\* The scheduler's fibers are made by new Fiber(): the stack of the default
\* size, written by Fiber::reset at every spawn; the model of the scheduler
\* keeps of it the frame that rsp stands for (Entry) and leaves stack alone.
InitWith(P) == InitSched(P) /\ stack = NewStack(4096, MaxStackSize, "linux")

Init == InitWith(Programs)

hist == << ran, dec, wz, spurious, held, calls, where, loaded >>

\* ------------------------------------------------------------ client code
\* The code the thread is executing: the root program outside a fiber, the
\* fiber's work closure inside one.
CurCode(t) == IF cur[t] = Null THEN prog ELSE Code(task[rt[t].task].k)
CurIp(t) == IF cur[t] = Null THEN rootip ELSE rt[t].ip
AtOp(t, ops) ==
    /\ ~crashed
    /\ pc[t] = "run"
    /\ CurIp(t) \in 1 .. Len(CurCode(t))
    /\ CurCode(t)[CurIp(t)].op \in ops
CurOp(t) == CurCode(t)[CurIp(t)]

\* The call returns to the client code, which goes on with its next
\* operation; a work closure that has returned goes on in fiber_entry_stub.
Advance(t) ==
    IF cur[t] = Null
    THEN /\ rootip' = rootip + 1
         /\ rt' = rt
         /\ pc' = [pc EXCEPT ![t] = "run"]
    ELSE /\ rootip' = rootip
         /\ rt' = [rt EXCEPT ![t].ip = @ + 1]
         /\ pc' = [pc EXCEPT ![t] = IF rt[t].ip + 1 > Len(CurCode(t)) THEN "fin_sub" ELSE "run"]

\* init_main_thread_worker
InitMainThreadWorker(t) ==
    /\ AtOp(t, {"init"})
    /\ tsched' = [tsched EXCEPT ![t] = TRUE]
    /\ Advance(t)
    /\ UNCHANGED << stack, note, prog, value, wlist, fib, nfib, phead, queue, fifo, mtx, running, workers,
                    cur, ctx, loc, task, ntask, crashed, hist >>

\* stop
StopScheduler(t) ==
    /\ AtOp(t, {"stop"})
    /\ running' = FALSE
    /\ Advance(t)
    /\ UNCHANGED << stack, note, prog, value, wlist, fib, nfib, phead, queue, fifo, mtx, tsched, workers,
                    cur, ctx, loc, task, ntask, crashed, hist >>

\* ~TaskScheduler: stop()
DestroyStop(t) ==
    /\ AtOp(t, {"destroy"})
    /\ running' = FALSE
    /\ loc' = [loc EXCEPT ![t].i = 0]
    /\ pc' = [pc EXCEPT ![t] = "delete"]
    /\ UNCHANGED << stack, note, prog, rootip, value, wlist, fib, nfib, phead, queue, fifo, mtx,
                    tsched, workers, cur, ctx, rt, task, ntask, crashed, hist >>

\* The constructor starts a thread for the workers 1 .. n-1 only.
HasThread(w) == w # 0

\* ~TaskScheduler: for (auto w : workers) delete w.  Deleting a Worker
\* destroys its thread handle, which joins the thread, and its queue.
DeleteWorker(t) ==
    /\ ~crashed
    /\ pc[t] = "delete"
    /\ LET w == loc[t].i IN
       /\ HasThread(w) => pc[w] = "exited"
       /\ workers' = [workers EXCEPT ![w] = FALSE]
       /\ IF w + 1 < NumThreads
          THEN /\ loc' = [loc EXCEPT ![t].i = w + 1]
               /\ pc' = pc
          ELSE /\ loc' = [loc EXCEPT ![t].i = 0]
               /\ pc' = [pc EXCEPT ![t] = "delete_fibers"]
    /\ UNCHANGED << stack, note, prog, rootip, value, wlist, fib, nfib, phead, queue, fifo, mtx,
                    running, tsched, cur, ctx, rt, task, ntask, crashed, hist >>

\* The fibers linked from h through next_pool (at most n).
RECURSIVE PoolChain(_, _)
PoolChain(h, n) ==
    IF h = Null \/ n = 0 THEN << >> ELSE << h >> \o PoolChain(fib[h].np, n - 1)

\* ~TaskScheduler: the fibers in main_thread_incoming_queue are deleted and
\* the queue cleared; the free-list is popped until it is empty.
DeleteFibers(t) ==
    /\ ~crashed
    /\ pc[t] = "delete_fibers"
    /\ fifo' = << >>
    /\ phead' = Null
    /\ held' = [f \in Fibers |->
                  held[f] + Cardinality({i \in DOMAIN PoolChain(phead, nfib + 1) :
                                            PoolChain(phead, nfib + 1)[i] = f})]
    /\ Advance(t)
    /\ UNCHANGED << stack, note, prog, value, wlist, fib, nfib, queue, mtx, running, tsched, workers,
                    cur, ctx, loc, task, ntask, crashed,
                    ran, dec, wz, spurious, calls, where, loaded >>

\* Completion decrements done so far by the tasks 1 .. n spawned under c.
RECURSIVE Decrements(_, _)
Decrements(c, n) ==
    IF n = 0 THEN 0
    ELSE Decrements(c, n - 1) + (IF task[n].c = c THEN dec[n] ELSE 0)

\* Counter::load by the client
CounterLoad(t) ==
    /\ AtOp(t, {"load"})
    /\ loaded' = Append(loaded, [v |-> value[CurOp(t).c], at |-> CurIp(t),
                                 d |-> Decrements(CurOp(t).c, ntask)])
    /\ Advance(t)
    /\ UNCHANGED << stack, note, prog, value, wlist, fib, nfib, phead, queue, fifo, mtx, running, tsched, workers,
                    cur, ctx, loc, task, ntask, crashed,
                    ran, dec, wz, spurious, held, calls, where >>

\* A waiter on c has seen c at 0 once the value written is 0.
ZeroSeen(c, v) ==
    [w \in DOMAIN wz |-> IF wz[w].c = c /\ v = 0 THEN [wz[w] EXCEPT !.z = TRUE] ELSE wz[w]]

\* Counter::store by the client
CounterStore(t) ==
    /\ AtOp(t, {"store"})
    /\ value' = [value EXCEPT ![CurOp(t).c] = CurOp(t).a]
    /\ wz' = ZeroSeen(CurOp(t).c, CurOp(t).a)
    /\ Advance(t)
    /\ UNCHANGED << stack, note, prog, wlist, fib, nfib, phead, queue, fifo, mtx, running, tsched, workers,
                    cur, ctx, loc, task, ntask, crashed,
                    ran, dec, spurious, held, calls, where, loaded >>

\* Counter::fetch_sub by the client
CounterFetchSub(t) ==
    /\ AtOp(t, {"fsub"})
    /\ value' = [value EXCEPT ![CurOp(t).c] = @ - CurOp(t).a]
    /\ wz' = ZeroSeen(CurOp(t).c, value[CurOp(t).c] - CurOp(t).a)
    /\ Advance(t)
    /\ UNCHANGED << stack, note, prog, wlist, fib, nfib, phead, queue, fifo, mtx, running, tsched, workers,
                    cur, ctx, loc, task, ntask, crashed,
                    ran, dec, spurious, held, calls, where, loaded >>

\* The side effect of a work closure (one increment of a shared integer).
WorkEffect(t) ==
    /\ AtOp(t, {"effect"})
    /\ cur[t] # Null
    /\ ran' = [ran EXCEPT ![rt[t].task] = @ + 1]
    /\ Advance(t)
    /\ UNCHANGED << stack, note, prog, value, wlist, fib, nfib, phead, queue, fifo, mtx, running, tsched, workers,
                    cur, ctx, loc, task, ntask, crashed,
                    dec, wz, spurious, held, calls, where, loaded >>

\* The closure ParallelFor spawns: for (j = start; j < end; ++j) body(j, j)
RangeBody(start, end) == [j \in 1 .. (end - start) |-> << start + j - 1, start + j - 1 >>]

WorkRange(t) ==
    /\ AtOp(t, {"body"})
    /\ cur[t] # Null
    /\ calls' = [calls EXCEPT ![rt[t].task] =
                    @ \o RangeBody(task[rt[t].task].a, task[rt[t].task].b)]
    /\ ran' = [ran EXCEPT ![rt[t].task] = @ + 1]
    /\ Advance(t)
    /\ UNCHANGED << stack, note, prog, value, wlist, fib, nfib, phead, queue, fifo, mtx, running, tsched, workers,
                    cur, ctx, loc, task, ntask, crashed,
                    dec, wz, spurious, held, where, loaded >>

\* ------------------------------------------- spawn / submit / ParallelFor
\* ParallelFor: batch_count = (count + chunk_size - 1) / chunk_size
BatchCount(count, chunk) == ((count + chunk - 1) % SizeMod) \div chunk

\* The closure and counter of the spawn in progress on thread t.
SpawnArgs(t) ==
    LET o == CurOp(t) IN
    IF o.op = "pfor"
    THEN [k |-> K_RANGE, c |-> o.c, a |-> (loc[t].pi * o.b) % SizeMod,
          b |-> Min((((loc[t].pi * o.b) % SizeMod) + o.b) % SizeMod, o.a)]
    ELSE [k |-> o.k, c |-> o.c, a |-> o.a, b |-> o.b]

\* ParallelFor with batch_count = 0 spawns nothing.
ParallelForEmpty(t) ==
    /\ AtOp(t, {"pfor"})
    /\ BatchCount(CurOp(t).a, CurOp(t).b) = 0
    /\ Advance(t)
    /\ UNCHANGED << stack, note, prog, value, wlist, fib, nfib, phead, queue, fifo, mtx, running, tsched, workers,
                    cur, ctx, loc, task, ntask, crashed, hist >>

\* LockFreeFiberPool::pop, entered from allocate_fiber at the start of spawn
\* or submit_main_thread_task: load of head and of old_head->next_pool;
\* allocate_fiber's new Fiber() when the pool is empty.
\* Faulty variant of PoolLoad: allocate_fiber without the new Fiber().
PoolLoadNoFallback(t, l) ==
    IF phead = Null
    THEN /\ nfib' = nfib
         /\ held' = held
         /\ loc' = [loc EXCEPT ![t] = [l EXCEPT !.nf = Null, !.old = Null, !.nxt = Null]]
         /\ pc' = [pc EXCEPT ![t] = "reset"]
    ELSE /\ nfib' = nfib
         /\ held' = held
         /\ loc' = [loc EXCEPT ![t] = [l EXCEPT !.old = phead, !.nxt = fib[phead].np]]
         /\ pc' = [pc EXCEPT ![t] = "pop_cas"]

PoolLoad(t, l) ==
    IF phead = Null
    THEN /\ nfib' = nfib + 1
         /\ held' = [held EXCEPT ![nfib + 1] = @ + 1]
         /\ loc' = [loc EXCEPT ![t] = [l EXCEPT !.nf = nfib + 1, !.old = Null, !.nxt = Null]]
         /\ pc' = [pc EXCEPT ![t] = "reset"]
    ELSE /\ nfib' = nfib
         /\ held' = held
         /\ loc' = [loc EXCEPT ![t] = [l EXCEPT !.old = phead, !.nxt = fib[phead].np]]
         /\ pc' = [pc EXCEPT ![t] = "pop_cas"]

AllocateFiber(t) ==
    /\ \/ AtOp(t, {"spawn", "submit"})
       \/ /\ AtOp(t, {"pfor"})
          /\ loc[t].pi < BatchCount(CurOp(t).a, CurOp(t).b)
    /\ ntask < MaxTasks
    /\ ntask' = ntask + 1
    /\ PoolLoad(t, [loc[t] EXCEPT !.id = ntask + 1])
    /\ UNCHANGED << stack, note, prog, rootip, value, wlist, fib, phead, queue, fifo, mtx, running, tsched, workers,
                    cur, ctx, rt, task, crashed,
                    ran, dec, wz, spurious, calls, where, loaded >>

\* LockFreeFiberPool::pop: compare_exchange_weak(old_head, old_head->next_pool)
PoolPopCas(t) ==
    /\ ~crashed
    /\ pc[t] = "pop_cas"
    /\ IF phead = loc[t].old
       THEN /\ phead' = loc[t].nxt
            /\ held' = [held EXCEPT ![loc[t].old] = @ + 1]
            /\ loc' = [loc EXCEPT ![t].nf = loc[t].old, ![t].old = Null, ![t].nxt = Null]
            /\ pc' = [pc EXCEPT ![t] = "reset"]
            /\ nfib' = nfib
       ELSE /\ phead' = phead
            /\ PoolLoad(t, loc[t])
    /\ UNCHANGED << stack, note, prog, rootip, value, wlist, fib, queue, fifo, mtx, running, tsched, workers,
                    cur, ctx, rt, task, ntask, crashed,
                    ran, dec, wz, spurious, calls, where, loaded >>

\* Faulty variant of FiberReset: only work, signal_counter and rsp are set.
FiberResetStale(f, id, c) ==
    [fib EXCEPT ![f].work = id, ![f].sig = c, ![f].rsp = Entry]

\* Fiber::reset: the fields, and the entry frame written at the top of the
\* fiber's stack (rsp = Entry).
FiberReset(f, id, c) ==
    [fib EXCEPT ![f] = [work |-> id, sig |-> c, fin |-> FALSE, nw |-> Null,
                        np |-> Null, pend |-> Null, rsp |-> Entry]]

\* Faulty variant of WorkerIndex: every thread uses index 0.
WorkerIndexMain(t) == 0

\* The index of the calling thread's own queue: t_worker_index (set by
\* worker_loop; 0 on the main thread).
WorkerIndex(t) == t

\* Faulty variant of OnMainWorker: any bound thread counts as Worker 0.
OnAnyWorker(t) == tsched[t]

\* submit_main_thread_task: if (t_scheduler && t_worker_index == 0)
OnMainWorker(t) == tsched[t] /\ WorkerIndex(t) = 0

\* Faulty variant of FetchAdd: the increment left out.
FetchAddNone(v, c) == v

\* Counter::fetch_add(1)
FetchAdd(v, c) == [v EXCEPT ![c] = @ + 1]

\* spawn / submit_main_thread_task: f->reset(work, counter, entry), then
\* counter->fetch_add(1) when a counter is given.  The entry frame that reset
\* writes lies in the stack of a thread that is running the fiber (undefined
\* behaviour): that thread either goes on or the process faults.
SpawnReset(t) ==
    /\ ~crashed
    /\ pc[t] = "reset"
    /\ crashed' \in IF \E u \in Threads : cur[u] = loc[t].nf THEN {FALSE, TRUE} ELSE {FALSE}
    /\ LET a == SpawnArgs(t)
           via == IF CurOp(t).op # "submit" THEN "spawn"
                  ELSE IF OnMainWorker(t) THEN "queue0" ELSE "fifo"
       IN /\ fib' = FiberReset(loc[t].nf, loc[t].id, a.c)
          /\ task' = [task EXCEPT ![loc[t].id] =
                         [k |-> a.k, c |-> a.c, a |-> a.a, b |-> a.b,
                          by |-> IF cur[t] = Null THEN 0 ELSE rt[t].task, via |-> via]]
          /\ value' = IF a.c # Null THEN FetchAdd(value, a.c) ELSE value
    /\ pc' = [pc EXCEPT ![t] = "enq"]
    /\ UNCHANGED << stack, note, prog, rootip, wlist, nfib, phead, queue, fifo, mtx, running, tsched, workers,
                    cur, ctx, loc, rt, ntask, hist >>

\* The end of spawn, of submit_main_thread_task and of one round of
\* ParallelFor's loop.
SpawnReturn(t) ==
    IF CurOp(t).op = "pfor" /\ loc[t].pi + 1 < BatchCount(CurOp(t).a, CurOp(t).b)
    THEN /\ loc' = [loc EXCEPT ![t].nf = Null, ![t].id = 0, ![t].pi = @ + 1]
         /\ pc' = [pc EXCEPT ![t] = "run"]
         /\ UNCHANGED << stack, rootip, rt >>
    ELSE /\ loc' = [loc EXCEPT ![t].nf = Null, ![t].id = 0, ![t].pi = 0]
         /\ Advance(t)

\* Worker::queue (owner end is the tail, thieves take the head)
QueuePush(q, f) == Append(q, f)
QueuePop(q) == SubSeq(q, 1, Len(q) - 1)
QueueBottom(q) == q[Len(q)]
QueueSteal(q) == Tail(q)
QueueTop(q) == Head(q)

\* spawn: workers[t_scheduler ? t_worker_index : 0]->queue.push(f);
\* submit_main_thread_task on Worker 0: workers[0]->queue.push(f)
SpawnPush(t) ==
    /\ ~crashed
    /\ pc[t] = "enq"
    /\ CurOp(t).op = "submit" => OnMainWorker(t)
    /\ LET idx == IF CurOp(t).op = "submit" THEN 0
                  ELSE IF tsched[t] THEN WorkerIndex(t) ELSE 0
       IN queue' = [queue EXCEPT ![idx] = QueuePush(@, loc[t].nf)]
    /\ SpawnReturn(t)
    /\ UNCHANGED << stack, note, prog, value, wlist, fib, nfib, phead, fifo, mtx, running, tsched, workers,
                    cur, ctx, task, ntask, crashed, hist >>

\* The value of main_queue_mtx while thread t owns it.
Holder(t) == t + 1

\* submit_main_thread_task off Worker 0: std::lock_guard lock(main_queue_mtx)
SubmitLock(t) ==
    /\ ~crashed
    /\ pc[t] = "enq"
    /\ CurOp(t).op = "submit"
    /\ ~OnMainWorker(t)
    /\ mtx = Null
    /\ mtx' = Holder(t)
    /\ note' = [note EXCEPT !.subm = @ \/ (t # 0 /\ ctx[0] \in {"pumpA", "pumpB"})]
    /\ pc' = [pc EXCEPT ![t] = "fifo_push"]
    /\ UNCHANGED << stack, prog, rootip, value, wlist, fib, nfib, phead, queue, fifo, running, tsched, workers,
                    cur, ctx, loc, rt, task, ntask, crashed, hist >>

\* main_thread_incoming_queue.push_back(f), then the lock is released
SubmitPushBack(t) ==
    /\ ~crashed
    /\ pc[t] = "fifo_push"
    /\ fifo' = Append(fifo, loc[t].nf)
    /\ mtx' = Null
    /\ SpawnReturn(t)
    /\ UNCHANGED << stack, note, prog, value, wlist, fib, nfib, phead, queue, running, tsched, workers,
                    cur, ctx, task, ntask, crashed, hist >>

\* ------------------------------------------------------- wait_for_counter
\* Faulty variant of AlreadyZero: the early return left out.
AlreadyZeroNever(c) == FALSE

\* wait_for_counter: if (counter.value.load() == 0) return
AlreadyZero(c) == value[c] = 0

\* wait_for_counter, root context: while (counter.value.load() > 0)
RootStillWaiting(v) == v > 0

\* Fiber context: the caller goes on only where the value is found == 0, at
\* the first load of wait_for_counter or at execute_task's re-check after
\* the registration; otherwise the fiber is, or stays, suspended.
FiberStillWaiting(v) == v # 0

\* The first load; the fiber branch (pending_wait_counter, switch to the
\* worker's stack); entry into the root branch.
WaitForCounter(t) ==
    /\ AtOp(t, {"wait"})
    /\ LET c == CurOp(t).c IN
       IF AlreadyZero(c)
       THEN /\ Advance(t)
            /\ UNCHANGED << stack, fib, ctx, loc, wz >>
       ELSE IF cur[t] # Null
       THEN /\ fib' = [fib EXCEPT ![cur[t]].pend = c,
                                  ![cur[t]].rsp = [task |-> rt[t].task, ip |-> rt[t].ip + 1]]
            /\ wz' = [wz EXCEPT ![rt[t].task] = [c |-> c, z |-> FALSE]]
            /\ rt' = [rt EXCEPT ![t] = Entry]
            /\ pc' = [pc EXCEPT ![t] = "post"]
            /\ UNCHANGED << stack, rootip, ctx, loc >>
       ELSE /\ wz' = [wz EXCEPT ![0] = [c |-> c, z |-> FALSE]]
            /\ loc' = [loc EXCEPT ![t].wc = c]
            /\ ctx' = [ctx EXCEPT ![t] = "wait_loop"]
            /\ pc' = [pc EXCEPT ![t] = "wait_loop"]
            /\ UNCHANGED << stack, rootip, rt, fib >>
    /\ UNCHANGED << stack, note, prog, value, wlist, nfib, phead, queue, fifo, mtx, running, tsched, workers,
                    cur, task, ntask, crashed,
                    ran, dec, spurious, held, calls, where, loaded >>

\* Root branch: while (counter.value.load() > 0), one round begins
WaitLoop(t) ==
    /\ ~crashed
    /\ pc[t] = "wait_loop"
    /\ note' = [note EXCEPT !.idle = FALSE]
    /\ IF RootStillWaiting(value[loc[t].wc])
       THEN /\ pc' = [pc EXCEPT ![t] = IF prog[rootip].a = 1 THEN "on_idle" ELSE "wait_pop"]
            /\ UNCHANGED << stack, rootip, rt, ctx, loc, wz, spurious >>
       ELSE /\ spurious' = IF ~wz[0].z /\ value[loc[t].wc] # 0 THEN spurious \cup {0} ELSE spurious
            /\ wz' = [wz EXCEPT ![0] = NoWait]
            /\ loc' = [loc EXCEPT ![t] = NoLoc]
            /\ ctx' = [ctx EXCEPT ![t] = "root"]
            /\ Advance(t)
    /\ UNCHANGED << stack, prog, value, wlist, fib, nfib, phead, queue, fifo, mtx, running, tsched, workers,
                    cur, task, ntask, crashed,
                    ran, dec, held, calls, where, loaded >>

\* Root branch: if (on_idle) on_idle(), the first statement of a round
OnIdle(t) ==
    /\ ~crashed
    /\ pc[t] = "on_idle"
    /\ note' = [note EXCEPT !.idle = TRUE]
    /\ pc' = [pc EXCEPT ![t] = "wait_pop"]
    /\ UNCHANGED << stack, prog, rootip, value, wlist, fib, nfib, phead, queue, fifo, mtx, running,
                    tsched, workers, cur, ctx, loc, rt, task, ntask, crashed, hist >>

\* The calling loop has found no fiber: worker_loop sleeps, the root wait
\* yields; both start their next round.
Idle(t) == [pc EXCEPT ![t] = ctx[t]]

\* workers[idx]->queue.pop() by the owner; steal_task starts when it is empty.
PopOwn(t) ==
    IF queue[WorkerIndex(t)] # << >>
    THEN /\ queue' = [queue EXCEPT ![WorkerIndex(t)] = QueuePop(@)]
         /\ loc' = [loc EXCEPT ![t].f = QueueBottom(queue[WorkerIndex(t)])]
         /\ pc' = [pc EXCEPT ![t] = "exec"]
    ELSE /\ queue' = queue
         /\ loc' = [loc EXCEPT ![t].i = 1]
         /\ pc' = IF NumThreads > 1 THEN [pc EXCEPT ![t] = "steal"] ELSE Idle(t)

WaitPop(t) ==
    /\ ~crashed
    /\ pc[t] = "wait_pop"
    /\ PopOwn(t)
    /\ UNCHANGED << stack, note, prog, rootip, value, wlist, fib, nfib, phead, fifo, mtx, running, tsched, workers,
                    cur, ctx, rt, task, ntask, crashed, hist >>

\* Faulty variant of Victim: the thief probes its own queue only.
VictimSelf(my, i) == my

\* steal_task: victim = (my_idx + i) % num_threads
Victim(my, i) == (my + i) % NumThreads

\* steal_task: one probe.  A probe of a Worker that has been deleted reads
\* freed memory (undefined behaviour): the process faults, or the probe goes
\* on with what the queue held.
StealTask(t) ==
    /\ ~crashed
    /\ pc[t] = "steal"
    /\ LET victim == Victim(WorkerIndex(t), loc[t].i) IN
       /\ note' = [note EXCEPT !.dead = @ \/ ~workers[victim]]
       /\ \/ /\ ~workers[victim]
             /\ crashed' = TRUE
             /\ UNCHANGED << stack, queue, loc, pc >>
          \/ /\ crashed' = crashed
             /\ IF queue[victim] # << >>
                THEN /\ queue' = [queue EXCEPT ![victim] = QueueSteal(@)]
                     /\ loc' = [loc EXCEPT ![t].f = QueueTop(queue[victim]), ![t].i = 0]
                     /\ pc' = [pc EXCEPT ![t] = "exec"]
                ELSE /\ queue' = queue
                     /\ IF loc[t].i + 1 < NumThreads
                        THEN /\ loc' = [loc EXCEPT ![t].i = @ + 1]
                             /\ pc' = pc
                        ELSE /\ loc' = [loc EXCEPT ![t].i = 0]
                             /\ pc' = Idle(t)
    /\ UNCHANGED << stack, prog, rootip, value, wlist, fib, nfib, phead, fifo, mtx, running, tsched,
                    workers, cur, ctx, rt, task, ntask, hist >>

\* worker_loop: t_worker_index = index; t_scheduler = this
WorkerStart(t) ==
    /\ ~crashed
    /\ pc[t] = "start"
    /\ tsched' = [tsched EXCEPT ![t] = TRUE]
    /\ pc' = [pc EXCEPT ![t] = "loop"]
    /\ UNCHANGED << stack, note, prog, rootip, value, wlist, fib, nfib, phead, queue, fifo, mtx, running, workers,
                    cur, ctx, loc, rt, task, ntask, crashed, hist >>

\* Faulty variant of LoopCondition: the flag is not looked at.
LoopConditionTrue == TRUE

\* worker_loop: while (running && !st.stop_requested()); the stop token is
\* requested only when the scheduler is destroyed, after stop()
LoopCondition == running

\* worker_loop: the condition is evaluated at the top of each round
WorkerLoop(t) ==
    /\ ~crashed
    /\ pc[t] = "loop"
    /\ pc' = [pc EXCEPT ![t] = IF LoopCondition THEN "loop_pop" ELSE "exited"]
    /\ UNCHANGED << stack, note, prog, rootip, value, wlist, fib, nfib, phead, queue, fifo, mtx, running,
                    tsched, workers, cur, ctx, loc, rt, task, ntask, crashed, hist >>

\* worker_loop, index > 0: pop of the own queue; else steal_task
WorkerPop(t) ==
    /\ ~crashed
    /\ pc[t] = "loop_pop"
    /\ PopOwn(t)
    /\ UNCHANGED << stack, note, prog, rootip, value, wlist, fib, nfib, phead, fifo, mtx, running,
                    tsched, workers, cur, ctx, rt, task, ntask, crashed, hist >>

\* Faulty variant of TryLock: the lock is never obtained.
TryLockNever(m) == FALSE

\* std::unique_lock lock(main_queue_mtx, std::try_to_lock); lock.owns_lock()
TryLock(m) == m = Null

\* pump_main_thread_tasks, first loop: try_to_lock, front / pop_front
PumpFifo(t) ==
    /\ \/ AtOp(t, {"pump"})
       \/ ~crashed /\ pc[t] = "pumpA"
    /\ note' = IF pc[t] = "run" THEN [note EXCEPT !.subm = mtx # Null] ELSE note
    /\ IF TryLock(mtx) /\ fifo # << >>
       THEN /\ fifo' = Tail(fifo)
            /\ loc' = [loc EXCEPT ![t].f = Head(fifo)]
            /\ ctx' = [ctx EXCEPT ![t] = "pumpA"]
            /\ pc' = [pc EXCEPT ![t] = "exec"]
       ELSE /\ fifo' = fifo
            /\ loc' = loc
            /\ ctx' = [ctx EXCEPT ![t] = "pumpB"]
            /\ pc' = [pc EXCEPT ![t] = "pumpB"]
    /\ UNCHANGED << stack, prog, rootip, value, wlist, fib, nfib, phead, queue, mtx, running, tsched, workers,
                    cur, rt, task, ntask, crashed, hist >>

\* pump_main_thread_tasks, second loop: while (workers[0]->queue.pop())
PumpQueue(t) ==
    /\ ~crashed
    /\ pc[t] = "pumpB"
    /\ IF queue[0] # << >>
       THEN /\ queue' = [queue EXCEPT ![0] = QueuePop(@)]
            /\ loc' = [loc EXCEPT ![t].f = QueueBottom(queue[0])]
            /\ pc' = [pc EXCEPT ![t] = "exec"]
            /\ UNCHANGED << stack, rootip, rt, ctx >>
       ELSE /\ queue' = queue
            /\ loc' = [loc EXCEPT ![t] = NoLoc]
            /\ ctx' = [ctx EXCEPT ![t] = "root"]
            /\ Advance(t)
    /\ UNCHANGED << stack, note, prog, value, wlist, fib, nfib, phead, fifo, mtx, running, tsched, workers,
                    cur, task, ntask, crashed, hist >>

\* Faulty variant of SetCurrent: t_current_fiber is left as it was.
SetCurrentNone(t, f) == cur

\* execute_task: t_current_fiber = f before the switch, = nullptr after the
\* switch back
SetCurrent(t, f) == [cur EXCEPT ![t] = f]

\* ----------------------------------------- execute_task, fiber_entry_stub
\* execute_task: t_current_fiber = f; bud_switch_context(&t_worker_rsp, f->rsp).
\* The thread goes on where f->rsp points: at the start of fiber_entry_stub
\* (self->work is read and called), or behind the wait_for_counter that
\* switched out.  A fiber whose rsp is the final switch of fiber_entry_stub
\* returns from fiber_entry_stub into the zero-filled slot above its entry
\* frame: the thread jumps to address 0 and the process faults.  A fiber that
\* another thread is running shares its stack with that thread (undefined
\* behaviour): the switch either still finds the frame rsp points to and goes
\* on from it, or finds it overwritten and the process faults.
ExecuteTask(t) ==
    /\ ~crashed
    /\ pc[t] = "exec"
    /\ LET f == loc[t].f
           r == fib[f].rsp
           shared == \E u \in Threads \ {t} : cur[u] = f
       IN \/ /\ r.ip = 0
             /\ cur' = SetCurrent(t, f)
             /\ rt' = [rt EXCEPT ![t] = [task |-> fib[f].work, ip |-> 1]]
             /\ pc' = [pc EXCEPT ![t] = IF fib[f].work = Null THEN "fin_sub" ELSE "run"]
             /\ where' = IF fib[f].work = Null THEN where
                         ELSE [where EXCEPT ![fib[f].work] = @ \cup {<< t, ctx[t] >>}]
             /\ UNCHANGED << stack, crashed, wz, spurious >>
          \/ /\ r.ip > 0
             /\ cur' = SetCurrent(t, f)
             /\ rt' = [rt EXCEPT ![t] = r]
             /\ pc' = [pc EXCEPT ![t] = IF r.ip > Len(Code(task[r.task].k)) THEN "fin_sub" ELSE "run"]
             /\ where' = [where EXCEPT ![r.task] = @ \cup {<< t, ctx[t] >>}]
             /\ spurious' = IF wz[r.task].c # Null /\ ~wz[r.task].z
                            THEN spurious \cup {r.task} ELSE spurious
             /\ wz' = [wz EXCEPT ![r.task] = NoWait]
             /\ UNCHANGED crashed
          \/ /\ r.ip < 0 \/ shared
             /\ crashed' = TRUE
             /\ UNCHANGED << stack, cur, rt, pc, where, wz, spurious >>
    /\ UNCHANGED << stack, note, prog, rootip, value, wlist, fib, nfib, phead, queue, fifo, mtx, running,
                    tsched, workers, ctx, loc, task, ntask,
                    ran, dec, held, calls, loaded >>

\* execute_task returns to the loop that called it.
ExecReturn(t) ==
    /\ loc' = [loc EXCEPT ![t] = [NoLoc EXCEPT !.wc = loc[t].wc]]
    /\ pc' = [pc EXCEPT ![t] = ctx[t]]

\* execute_task after the switch back: t_current_fiber = nullptr, then the
\* post-switch wait (load of the waiting-list head) or, for a finished fiber,
\* f->work = nullptr and free_fiber (load of the pool head).
PostSwitch(t) ==
    /\ ~crashed
    /\ pc[t] = "post"
    /\ cur' = SetCurrent(t, Null)
    /\ LET f == loc[t].f IN
       IF fib[f].pend # Null
       THEN /\ fib' = [fib EXCEPT ![f].pend = Null]
            /\ loc' = [loc EXCEPT ![t].c = fib[f].pend, ![t].old = wlist[fib[f].pend]]
            /\ pc' = [pc EXCEPT ![t] = "reg_cas"]
       ELSE IF fib[f].fin
       THEN /\ fib' = [fib EXCEPT ![f].work = Null]
            /\ loc' = [loc EXCEPT ![t].old = phead]
            /\ pc' = [pc EXCEPT ![t] = "free_cas"]
       ELSE /\ fib' = fib
            /\ ExecReturn(t)
    /\ UNCHANGED << stack, note, prog, rootip, value, wlist, nfib, phead, queue, fifo, mtx, running,
                    tsched, workers, ctx, rt, task, ntask, crashed, hist >>

\* f->next_waiting = old_head; waiting_list.compare_exchange_weak(old_head, f)
RegisterCas(t) ==
    /\ ~crashed
    /\ pc[t] = "reg_cas"
    /\ fib' = [fib EXCEPT ![loc[t].f].nw = loc[t].old]
    /\ IF wlist[loc[t].c] = loc[t].old
       THEN /\ wlist' = [wlist EXCEPT ![loc[t].c] = loc[t].f]
            /\ loc' = [loc EXCEPT ![t].old = Null]
            /\ pc' = [pc EXCEPT ![t] = "reg_check"]
       ELSE /\ wlist' = wlist
            /\ loc' = [loc EXCEPT ![t].old = wlist[loc[t].c]]
            /\ pc' = pc
    /\ UNCHANGED << stack, note, prog, rootip, value, nfib, phead, queue, fifo, mtx, running,
                    tsched, workers, cur, ctx, rt, task, ntask, crashed, hist >>

\* The re-check after the push: if (c->value.load() == 0)
RegisterCheck(t) ==
    /\ ~crashed
    /\ pc[t] = "reg_check"
    /\ IF ~FiberStillWaiting(value[loc[t].c])
       THEN /\ pc' = [pc EXCEPT ![t] = "reg_xchg"]
            /\ loc' = loc
       ELSE ExecReturn(t)
    /\ UNCHANGED << stack, note, prog, rootip, value, wlist, fib, nfib, phead, queue, fifo, mtx, running,
                    tsched, workers, cur, ctx, rt, task, ntask, crashed, hist >>

\* waiting_list.exchange(nullptr)
RegisterExchange(t) ==
    /\ ~crashed
    /\ pc[t] = "reg_xchg"
    /\ wlist' = [wlist EXCEPT ![loc[t].c] = Null]
    /\ IF wlist[loc[t].c] = Null
       THEN ExecReturn(t)
       ELSE /\ loc' = [loc EXCEPT ![t].wl = wlist[loc[t].c]]
            /\ pc' = [pc EXCEPT ![t] = "reg_wake"]
    /\ UNCHANGED << stack, note, prog, rootip, value, fib, nfib, phead, queue, fifo, mtx, running,
                    tsched, workers, cur, ctx, rt, task, ntask, crashed, hist >>

\* One round of the wake loop: next = w->next_waiting; w->next_waiting =
\* nullptr; workers[t_worker_index]->queue.push(w)
WakeOne(t) ==
    /\ fib' = [fib EXCEPT ![loc[t].wl].nw = Null]
    /\ queue' = [queue EXCEPT ![WorkerIndex(t)] = QueuePush(@, loc[t].wl)]

RegisterWake(t) ==
    /\ ~crashed
    /\ pc[t] = "reg_wake"
    /\ WakeOne(t)
    /\ IF fib[loc[t].wl].nw = Null
       THEN ExecReturn(t)
       ELSE /\ loc' = [loc EXCEPT ![t].wl = fib[loc[t].wl].nw]
            /\ pc' = pc
    /\ UNCHANGED << stack, note, prog, rootip, value, wlist, nfib, phead, fifo, mtx, running,
                    tsched, workers, cur, ctx, rt, task, ntask, crashed, hist >>

\* free_fiber -> LockFreeFiberPool::push: f->next_pool = old_head;
\* head.compare_exchange_weak(old_head, f)
PoolPushCas(t) ==
    /\ ~crashed
    /\ pc[t] = "free_cas"
    /\ fib' = [fib EXCEPT ![loc[t].f].np = loc[t].old]
    /\ IF phead = loc[t].old
       THEN /\ phead' = loc[t].f
            /\ held' = [held EXCEPT ![loc[t].f] = @ - 1]
            /\ ExecReturn(t)
       ELSE /\ phead' = phead
            /\ held' = held
            /\ loc' = [loc EXCEPT ![t].old = phead]
            /\ pc' = pc
    /\ UNCHANGED << stack, note, prog, rootip, value, wlist, nfib, queue, fifo, mtx, running,
                    tsched, workers, cur, ctx, rt, task, ntask, crashed,
                    ran, dec, wz, spurious, calls, where, loaded >>

\* fiber_entry_stub, the end: is_finished = true; switch back to the worker
FiberFinish(f) == [fib EXCEPT ![f].fin = TRUE, ![f].rsp = Finished]

\* Faulty variant of WasLast: the drain is never started.
WasLastNever(prev) == FALSE

\* fiber_entry_stub: if (prev == 1)
WasLast(prev) == prev = 1

\* fiber_entry_stub after the work: signal_counter->value.fetch_sub(1)
SignalCounter(t) ==
    /\ ~crashed
    /\ pc[t] = "fin_sub"
    /\ LET self == cur[t]
           c == fib[self].sig
       IN IF c = Null
          THEN /\ fib' = FiberFinish(self)
               /\ rt' = [rt EXCEPT ![t] = Entry]
               /\ pc' = [pc EXCEPT ![t] = "post"]
               /\ UNCHANGED << stack, value, loc, dec, wz >>
          ELSE /\ value' = [value EXCEPT ![c] = @ - 1]
               /\ dec' = IF rt[t].task = Null THEN dec ELSE [dec EXCEPT ![rt[t].task] = @ + 1]
               /\ wz' = [w \in DOMAIN wz |->
                           IF wz[w].c = c /\ value[c] = 1 THEN [wz[w] EXCEPT !.z = TRUE] ELSE wz[w]]
               /\ IF WasLast(value[c])
                  THEN /\ loc' = [loc EXCEPT ![t].c = c]
                       /\ pc' = [pc EXCEPT ![t] = "fin_xchg"]
                       /\ UNCHANGED << stack, fib, rt >>
                  ELSE /\ fib' = FiberFinish(self)
                       /\ rt' = [rt EXCEPT ![t] = Entry]
                       /\ pc' = [pc EXCEPT ![t] = "post"]
                       /\ loc' = loc
    /\ UNCHANGED << stack, note, prog, rootip, wlist, nfib, phead, queue, fifo, mtx, running,
                    tsched, workers, cur, ctx, task, ntask, crashed,
                    ran, spurious, held, calls, where, loaded >>

\* prev == 1: signal_counter->waiting_list.exchange(nullptr)
SignalExchange(t) ==
    /\ ~crashed
    /\ pc[t] = "fin_xchg"
    /\ wlist' = [wlist EXCEPT ![loc[t].c] = Null]
    /\ IF wlist[loc[t].c] = Null
       THEN /\ fib' = FiberFinish(cur[t])
            /\ rt' = [rt EXCEPT ![t] = Entry]
            /\ loc' = [loc EXCEPT ![t].c = Null]
            /\ pc' = [pc EXCEPT ![t] = "post"]
       ELSE /\ loc' = [loc EXCEPT ![t].wl = wlist[loc[t].c], ![t].c = Null]
            /\ pc' = [pc EXCEPT ![t] = "fin_wake"]
            /\ UNCHANGED << stack, fib, rt >>
    /\ UNCHANGED << stack, note, prog, rootip, value, nfib, phead, queue, fifo, mtx, running,
                    tsched, workers, cur, ctx, task, ntask, crashed, hist >>

\* The wake loop of fiber_entry_stub, then the end of the fiber.
SignalWake(t) ==
    /\ ~crashed
    /\ pc[t] = "fin_wake"
    /\ queue' = [queue EXCEPT ![WorkerIndex(t)] = QueuePush(@, loc[t].wl)]
    /\ IF fib[loc[t].wl].nw = Null
       THEN /\ fib' = [FiberFinish(cur[t]) EXCEPT ![loc[t].wl].nw = Null]
            /\ rt' = [rt EXCEPT ![t] = Entry]
            /\ loc' = [loc EXCEPT ![t].wl = Null]
            /\ pc' = [pc EXCEPT ![t] = "post"]
       ELSE /\ fib' = [fib EXCEPT ![loc[t].wl].nw = Null]
            /\ loc' = [loc EXCEPT ![t].wl = fib[loc[t].wl].nw]
            /\ UNCHANGED << stack, rt, pc >>
    /\ UNCHANGED << stack, note, prog, rootip, value, wlist, nfib, phead, fifo, mtx, running,
                    tsched, workers, cur, ctx, task, ntask, crashed, hist >>

\* ------------------------------------------------------------------- spec
Step(t) ==
    \/ InitMainThreadWorker(t) \/ StopScheduler(t) \/ CounterLoad(t)
    \/ DestroyStop(t) \/ DeleteWorker(t) \/ DeleteFibers(t)
    \/ CounterStore(t) \/ CounterFetchSub(t)
    \/ WorkEffect(t) \/ WorkRange(t)
    \/ ParallelForEmpty(t) \/ AllocateFiber(t) \/ PoolPopCas(t) \/ SpawnReset(t)
    \/ SpawnPush(t) \/ SubmitLock(t) \/ SubmitPushBack(t)
    \/ WaitForCounter(t) \/ WaitLoop(t) \/ OnIdle(t) \/ WaitPop(t) \/ StealTask(t)
    \/ WorkerStart(t) \/ WorkerLoop(t) \/ WorkerPop(t) \/ PumpFifo(t) \/ PumpQueue(t)
    \/ ExecuteTask(t) \/ PostSwitch(t)
    \/ RegisterCas(t) \/ RegisterCheck(t) \/ RegisterExchange(t) \/ RegisterWake(t)
    \/ PoolPushCas(t)
    \/ SignalCounter(t) \/ SignalExchange(t) \/ SignalWake(t)

Next == \E t \in Threads : Step(t)

Spec == Init /\ [][Next]_vars

\* The scheduler under the join programs alone: one thread spawns n plain
\* tasks under a fresh Counter, loads, waits, loads.  These are the steps of
\* Next that such a run takes.
InitJoin == InitWith(JoinPrograms)

StepJoin(t) ==
    \/ InitMainThreadWorker(t) \/ StopScheduler(t) \/ CounterLoad(t)
    \/ WorkEffect(t)
    \/ AllocateFiber(t) \/ PoolPopCas(t) \/ SpawnReset(t) \/ SpawnPush(t)
    \/ WaitForCounter(t) \/ WaitLoop(t) \/ WaitPop(t) \/ StealTask(t)
    \/ WorkerStart(t) \/ WorkerLoop(t) \/ WorkerPop(t)
    \/ ExecuteTask(t) \/ PostSwitch(t) \/ PoolPushCas(t)
    \/ SignalCounter(t) \/ SignalExchange(t)

NextJoin == \E t \in Threads : StepJoin(t)

SpecJoin == InitJoin /\ [][NextJoin]_vars

\* The scheduler under the hand-off programs, every thread scheduled fairly:
\* a thread that can take a step is not left waiting for ever.
InitPinned == InitWith(PinnedPrograms)

StepPinned(t) ==
    \/ InitMainThreadWorker(t) \/ WorkEffect(t)
    \/ AllocateFiber(t) \/ PoolPopCas(t) \/ SpawnReset(t) \/ SpawnPush(t)
    \/ SubmitLock(t) \/ SubmitPushBack(t)
    \/ WaitForCounter(t) \/ WaitLoop(t) \/ WaitPop(t) \/ StealTask(t)
    \/ WorkerStart(t) \/ WorkerLoop(t) \/ WorkerPop(t)
    \/ ExecuteTask(t) \/ PostSwitch(t) \/ PoolPushCas(t)
    \/ SignalCounter(t) \/ SignalExchange(t)

NextPinned == \E t \in Threads : StepPinned(t)

SpecPinned ==
    InitPinned /\ [][NextPinned]_vars /\ \A t \in Threads : WF_vars(StepPinned(t))

\* The scheduler under the programs that leave their tasks to the workers,
\* every thread scheduled fairly.
InitSteal == InitWith(StealPrograms)

StepSteal(t) ==
    \/ InitMainThreadWorker(t) \/ StopScheduler(t) \/ WorkEffect(t)
    \/ AllocateFiber(t) \/ PoolPopCas(t) \/ SpawnReset(t) \/ SpawnPush(t)
    \/ StealTask(t) \/ WorkerStart(t) \/ WorkerLoop(t) \/ WorkerPop(t)
    \/ ExecuteTask(t) \/ PostSwitch(t) \/ PoolPushCas(t)
    \/ SignalCounter(t) \/ SignalExchange(t)

NextSteal == \E t \in Threads : StepSteal(t)

SpecSteal ==
    InitSteal /\ [][NextSteal]_vars /\ \A t \in Threads : WF_vars(StepSteal(t))

\* The scheduler under the pump programs.
InitPump == InitWith(PumpPrograms)

StepPump(t) ==
    \/ InitMainThreadWorker(t) \/ WorkEffect(t)
    \/ AllocateFiber(t) \/ PoolPopCas(t) \/ SpawnReset(t) \/ SpawnPush(t)
    \/ SubmitLock(t) \/ SubmitPushBack(t)
    \/ WaitForCounter(t) \/ StealTask(t)
    \/ WorkerStart(t) \/ WorkerLoop(t) \/ WorkerPop(t) \/ PumpFifo(t) \/ PumpQueue(t)
    \/ ExecuteTask(t) \/ PostSwitch(t)
    \/ RegisterCas(t) \/ RegisterCheck(t) \/ RegisterExchange(t) \/ RegisterWake(t)
    \/ PoolPushCas(t)
    \/ SignalCounter(t) \/ SignalExchange(t) \/ SignalWake(t)

NextPump == \E t \in Threads : StepPump(t)

SpecPump == InitPump /\ [][NextPump]_vars

\* The scheduler under the programs that exhaust the pool.
InitExhaust == InitWith(ExhaustPrograms)

StepExhaust(t) ==
    \/ InitMainThreadWorker(t) \/ WorkEffect(t)
    \/ AllocateFiber(t) \/ PoolPopCas(t) \/ SpawnReset(t) \/ SpawnPush(t)
    \/ SubmitLock(t) \/ SubmitPushBack(t)
    \/ WaitForCounter(t) \/ WaitLoop(t) \/ WaitPop(t) \/ StealTask(t)
    \/ WorkerStart(t) \/ WorkerLoop(t) \/ WorkerPop(t) \/ PumpFifo(t) \/ PumpQueue(t)
    \/ ExecuteTask(t) \/ PostSwitch(t) \/ PoolPushCas(t)
    \/ SignalCounter(t) \/ SignalExchange(t)

NextExhaust == \E t \in Threads : StepExhaust(t)

SpecExhaust == InitExhaust /\ [][NextExhaust]_vars

\* The scheduler under the programs with fibers waiting for a Counter.
InitDrain == InitWith(DrainPrograms)

StepDrain(t) ==
    \/ InitMainThreadWorker(t) \/ WorkEffect(t)
    \/ AllocateFiber(t) \/ PoolPopCas(t) \/ SpawnReset(t) \/ SpawnPush(t)
    \/ WaitForCounter(t) \/ StealTask(t)
    \/ WorkerStart(t) \/ WorkerLoop(t) \/ WorkerPop(t) \/ PumpFifo(t) \/ PumpQueue(t)
    \/ ExecuteTask(t) \/ PostSwitch(t)
    \/ RegisterCas(t) \/ RegisterCheck(t) \/ RegisterExchange(t) \/ RegisterWake(t)
    \/ PoolPushCas(t)
    \/ SignalCounter(t) \/ SignalExchange(t) \/ SignalWake(t)

NextDrain == \E t \in Threads : StepDrain(t)

SpecDrain == InitDrain /\ [][NextDrain]_vars

\* The scheduler under the programs in which the root context and a fiber
\* wait.
InitWait == InitWith(WaitPrograms)

StepWait(t) ==
    \/ InitMainThreadWorker(t) \/ WorkEffect(t)
    \/ AllocateFiber(t) \/ PoolPopCas(t) \/ SpawnReset(t) \/ SpawnPush(t)
    \/ WaitForCounter(t) \/ WaitLoop(t) \/ WaitPop(t) \/ StealTask(t)
    \/ WorkerStart(t) \/ WorkerLoop(t) \/ WorkerPop(t) \/ PumpFifo(t) \/ PumpQueue(t)
    \/ ExecuteTask(t) \/ PostSwitch(t)
    \/ RegisterCas(t) \/ RegisterCheck(t) \/ RegisterExchange(t) \/ RegisterWake(t)
    \/ PoolPushCas(t)
    \/ SignalCounter(t) \/ SignalExchange(t) \/ SignalWake(t)

NextWait == \E t \in Threads : StepWait(t)

SpecWait == InitWait /\ [][NextWait]_vars

\* -------------------------------------------------------------- properties
\* The fibers linked from h through next_waiting (at most n).
RECURSIVE WaitChain(_, _)
WaitChain(h, n) ==
    IF h = Null \/ n = 0 THEN << >> ELSE << h >> \o WaitChain(fib[h].nw, n - 1)

Occ(s, f) == Cardinality({i \in DOMAIN s : s[i] = f})

\* In how many of the structures fiber f is: the free-list, the main-thread
\* FIFO, the ready queues, the waiting lists, running on a thread.
Places(f) ==
    Occ(PoolChain(phead, nfib + 1), f) + Occ(fifo, f)
    + Cardinality({t \in Threads : cur[t] = f})
    + Cardinality({t \in Threads : Occ(queue[t], f) > 0})
    + Cardinality({c \in Counters : Occ(WaitChain(wlist[c], nfib + 1), f) > 0})

\* C1: a wait_for_counter(C) call, from root context or from a fiber, does not
\* return (and a fiber suspended in it is not resumed) while C's value has
\* stayed above 0 all the time since the call.
WaitNeverSpurious == spurious = {}

\* Closure i was handed to the scheduler and no fiber holds it any more,
\* though it has not run.
Dropped(i) ==
    /\ task[i].via # "none"
    /\ ran[i] = 0
    /\ \A f \in 1 .. nfib : fib[f].work # i /\ fib[f].rsp.task # i
    /\ \A t \in Threads : rt[t].task # i

\* The root program stands right behind a wait_for_counter that has returned.
RootJoined ==
    /\ ~crashed
    /\ pc[0] = "run"
    /\ cur[0] = Null
    /\ rootip > 1
    /\ prog[rootip - 1].op = "wait"

\* C2: every closure spawned runs exactly once (none twice, none dropped), and
\* when the root's wait_for_counter on a Counter has returned, every task the
\* root spawned under that Counter has run.
EachTaskRunsOnce ==
    /\ \A i \in TaskIds : ran[i] <= 1 /\ ~Dropped(i)
    /\ RootJoined =>
         \A i \in TaskIds :
            (task[i].by = 0 /\ task[i].via # "none" /\ task[i].c = prog[rootip - 1].c)
               => ran[i] = 1

\* No thread is in the middle of registering a waiter on c or of draining c's
\* waiting list.
Quiescent(c) ==
    \A t \in Threads :
       /\ ~(pc[t] \in {"fin_xchg", "reg_cas", "reg_check", "reg_xchg"} /\ loc[t].c = c)
       /\ ~(pc[t] = "post" /\ fib[loc[t].f].pend = c)

\* Fiber f is on its way to being resumed: in a ready queue or the FIFO, in
\* the hand of a thread about to switch to it, or on a list being woken.
Ready(f) ==
    \/ \E t \in Threads : Occ(queue[t], f) > 0
    \/ Occ(fifo, f) > 0
    \/ \E t \in Threads : pc[t] = "exec" /\ loc[t].f = f
    \/ \E t \in Threads :
          pc[t] \in {"fin_wake", "reg_wake"} /\ Occ(WaitChain(loc[t].wl, nfib), f) > 0

Resumable(w) ==
    \E f \in 1 .. nfib : fib[f].rsp.task = w /\ fib[f].rsp.ip > 0 /\ Ready(f)

\* The root program changes Counter c itself, by store or fetch_sub.
DirectlySet(c) ==
    \E i \in DOMAIN prog : prog[i].op \in {"store", "fsub"} /\ prog[i].c = c

\* C3: no lost wakeup.  Once Counter c, changed by spawns and completions
\* only, is 0 and no registration or drain of c is in progress, no fiber is
\* left on c's waiting list, and every task that suspended in
\* wait_for_counter(c) is on its way to being resumed.
NoLostWakeup ==
    \A c \in Counters :
       (~DirectlySet(c) /\ value[c] = 0 /\ Quiescent(c)) =>
          /\ wlist[c] = Null
          /\ \A w \in TaskIds : wz[w].c = c => Resumable(w)

\* C4: a fiber is never in two of the structures (ready queue or FIFO,
\* waiting list, running, free-list) at once, nor twice in one.
FiberInOnePlace == \A f \in 1 .. nfib : Places(f) <= 1

\* C5: a fiber the pool has handed out is not handed out again before it has
\* been pushed back.
PoolHandsOutOnce == \A f \in Fibers : held[f] <= 1

\* C6: the value of a Counter changed by spawns and completions only is the
\* number of tasks spawned under it that have not yet done their completion
\* decrement, and is never negative.
CounterCountsOutstanding ==
    \A c \in Counters :
       ~DirectlySet(c) =>
          /\ value[c] >= 0
          /\ value[c] = Cardinality({i \in 1 .. ntask :
                            task[i].c = c /\ task[i].via # "none" /\ dec[i] = 0})

\* The spawns the root program has made before position at.
SpawnsBefore(at) == Cardinality({i \in 1 .. (at - 1) : prog[i].op = "spawn"})

\* C7 as stated: a load right after the N-th spawn returns N, and a load
\* after wait_for_counter has returned yields 0.
LoadAfterSpawnIsN ==
    \A k \in DOMAIN loaded :
       IF prog[loaded[k].at - 1].op = "wait"
       THEN loaded[k].v = 0
       ELSE loaded[k].v = SpawnsBefore(loaded[k].at)

\* C7, amended: a load right after the N-th spawn returns N less the
\* completion decrements the workers have already done, between 0 and N; a
\* load after wait_for_counter has returned yields 0.
LoadCountsOutstanding ==
    \A k \in DOMAIN loaded :
       IF prog[loaded[k].at - 1].op = "wait"
       THEN loaded[k].v = 0
       ELSE /\ loaded[k].v = SpawnsBefore(loaded[k].at) - loaded[k].d
            /\ loaded[k].d \in 0 .. SpawnsBefore(loaded[k].at)

\* Both loads of the largest join program are done; a task had completed
\* before the first.
LoadedBelowN ==
    /\ prog = JoinProgram(MaxJoin)
    /\ Len(loaded) = 2
    /\ loaded[1].d > 0
    /\ loaded[1].v = MaxJoin - loaded[1].d
    /\ loaded[2].v = 0

\* C8: a task that spawns a child under a Counter and waits for that Counter
\* inside its fiber goes on behind the wait only after the child has run.
NestedJoinOrdered ==
    \A i \in TaskIds :
       (task[i].k = K_NESTED /\ ran[i] > 0) =>
          \A j \in TaskIds : (task[j].via # "none" /\ task[j].by = i) => ran[j] > 0

\* C9: a task submitted through submit_main_thread_task off Worker 0 runs,
\* every part of it, on the main thread inside pump_main_thread_tasks.
MainThreadAffinity ==
    \A i \in TaskIds :
       task[i].via = "fifo" => where[i] \subseteq {<< 0, "pumpA" >>, << 0, "pumpB" >>}

\* C10: each task of ParallelFor invokes body once, with (start, end) of its
\* half-open range.
ParallelForBodyPerRange ==
    \A i \in TaskIds :
       (task[i].k = K_RANGE /\ ran[i] > 0) => calls[i] = << << task[i].a, task[i].b >> >>

\* The root program stands right behind a ParallelFor that has returned.
RootAfterParallelFor ==
    /\ ~crashed
    /\ pc[0] = "run"
    /\ cur[0] = Null
    /\ rootip > 1
    /\ prog[rootip - 1].op = "pfor"

\* The tasks whose closure is ParallelFor's range loop.
RangeTasks == {i \in 1 .. ntask : task[i].k = K_RANGE /\ task[i].via # "none"}

\* C11: when ParallelFor(count, chunk_size, body, counter) with chunk_size > 0
\* has returned, it has spawned ceil(count / chunk_size) tasks and raised the
\* counter by that number; each task's range is non-empty and at most
\* chunk_size long, and every index of [0, count) lies in exactly one range.
\* With count = 0 there is no task and the counter is as before.
ParallelForPartitions ==
    RootAfterParallelFor =>
       LET count == prog[rootip - 1].a
           chunk == prog[rootip - 1].b
           c == prog[rootip - 1].c
       IN /\ Cardinality(RangeTasks) = (count + chunk - 1) \div chunk
          /\ value[c] + Decrements(c, ntask) = (count + chunk - 1) \div chunk
          /\ \A i \in RangeTasks :
                /\ task[i].c = c
                /\ task[i].a < task[i].b
                /\ task[i].b - task[i].a <= chunk
                /\ task[i].b <= count
          /\ \A j \in 0 .. (count - 1) :
                Cardinality({i \in RangeTasks : task[i].a <= j /\ j < task[i].b}) = 1

\* C12: under fair scheduling a wait_for_counter called from root context on
\* the main thread returns, the tasks the Counter stands for being run by the
\* waiting thread or a worker wherever they sit (a ready queue, a waiting
\* list, the main-thread FIFO).  A process fault is not counted against it.
RootWaitReturns == (ctx[0] = "wait_loop") ~> (ctx[0] = "root" \/ crashed)

\* C13: whenever a Counter's value has become 0, by a task's completion or by
\* the caller's own Counter::fetch_sub / Counter::store, the fibers on its
\* waiting list are taken off the list and rescheduled: once no registration
\* or drain of the Counter is in progress, its waiting list is empty.
ZeroReleasesWaiters ==
    \A c \in Counters : (value[c] = 0 /\ Quiescent(c)) => wlist[c] = Null

\* Closure i sits, not yet started, in a fiber on Worker w's queue.
QueuedOn(i, w) ==
    \E f \in 1 .. nfib : fib[f].work = i /\ fib[f].rsp = Entry /\ Occ(queue[w], f) > 0

\* C14: work-stealing liveness.  Under fair scheduling a task on Worker 0's
\* queue, which the main thread never pops again, is executed as long as the
\* scheduler is running: the idle worker threads take it through steal_task.
StolenTasksRun ==
    \A i \in TaskIds : QueuedOn(i, 0) ~> (ran[i] = 1 \/ ~running)

\* Every task of the largest program has been run by worker threads, the
\* scheduler still running.
AllRunByWorkers ==
    /\ running
    /\ ntask = MaxJoin
    /\ \A i \in 1 .. MaxJoin :
          /\ ran[i] = 1
          /\ where[i] # {}
          /\ \A w \in where[i] : w[1] # 0 /\ w[2] = "loop"

\* C15: in spawn and in submit_main_thread_task the Counter is raised before
\* the fiber can be seen by any thread.  A fiber that is being prepared (popped,
\* not yet reset and counted) is in no queue and runs nowhere; and from the
\* increment to the task's own completion decrement the Counter is above 0.
IncrementBeforeVisible ==
    /\ \A t \in Threads :
          pc[t] = "reset" => (~Ready(loc[t].nf) /\ \A u \in Threads : cur[u] # loc[t].nf)
    /\ \A i \in 1 .. ntask :
          (task[i].via # "none" /\ task[i].c # Null /\ ~DirectlySet(task[i].c) /\ dec[i] = 0)
             => value[task[i].c] >= 1

\* C16: a round of the root wait loop calls on_idle only after the local pop
\* and the steal have both found no task: in a round in which the thread holds
\* a task it has found, on_idle has not been called.
OnIdleOnlyWhenIdle ==
    \A t \in Threads : (ctx[t] = "wait_loop" /\ pc[t] = "exec") => ~note.idle

\* C17: once stop() has cleared the running flag, a worker thread that reads
\* the flag at the top of its loop leaves worker_loop without taking a fiber;
\* a thread that has left takes no further step, whatever is still queued;
\* and every worker thread does leave, after the task it has in hand at most.
WorkersObeyStop ==
    /\ [][\A t \in Threads \ {0} :
            /\ (pc[t] = "loop" /\ ~running /\ pc'[t] # "loop") => pc'[t] = "exited"
            /\ pc[t] = "exited" =>
                  (pc'[t] = "exited" /\ cur'[t] = Null /\ loc'[t] = loc[t] /\ rt'[t] = rt[t])]_vars
    /\ \A t \in Threads \ {0} : (~running) ~> (pc[t] = "exited")

\* Every worker thread has left its loop while a task that has not run is
\* still on Worker 0's queue.
ExitedWithWorkLeft ==
    /\ ~running
    /\ \A t \in Threads \ {0} : pc[t] = "exited" /\ cur[t] = Null
    /\ \E i \in TaskIds : QueuedOn(i, 0) /\ ran[i] = 0

\* The tasks a pump_main_thread_tasks call has taken and switched to.
PumpedTasks ==
    {i \in 1 .. ntask : where[i] \cap {<< 0, "pumpA" >>, << 0, "pumpB" >>} # {}}

\* Task i has finished, or is suspended in a wait_for_counter, or has been
\* resumed from there by another thread.
RanOrSuspended(i) ==
    \/ ran[i] >= 1
    \/ \E f \in 1 .. nfib : fib[f].rsp.task = i /\ fib[f].rsp.ip > 0
    \/ \E u \in Threads \ {0} : rt[u].task = i

\* C18: pump_main_thread_tasks never waits for the FIFO mutex (its lock
\* attempt can always be made), and when it returns from a run during which
\* no other thread was inside submit_main_thread_task's locked section, the
\* main-thread FIFO and Worker 0's queue are empty and each fiber it took has
\* run until it finished or suspended.
PumpDrains ==
    /\ []((pc[0] = "pumpA" \/ AtOp(0, {"pump"})) => ENABLED PumpFifo(0))
    /\ [][(pc[0] = "pumpB" /\ pc'[0] = "run" /\ ~note.subm) =>
            /\ fifo' = << >>
            /\ queue'[0] = << >>
            /\ cur'[0] = Null /\ loc'[0].f = Null
            /\ \A i \in PumpedTasks : RanOrSuspended(i)]_vars

\* A pump that nobody disturbed has returned, having run a task from the FIFO
\* and a task from Worker 0's queue, one of which suspended in a wait.
PumpedBoth ==
    /\ pc[0] = "run" /\ cur[0] = Null /\ rootip > 1 /\ prog[rootip - 1].op = "pump"
    /\ ~note.subm
    /\ \E i \in 1 .. ntask : << 0, "pumpA" >> \in where[i] /\ ran[i] = 1
    /\ \E i \in 1 .. ntask : << 0, "pumpB" >> \in where[i] /\ task[i].k = K_NESTED

\* C19: with the pool empty spawn and submit_main_thread_task still succeed.
\* allocate_fiber never yields null; a Fiber made by the fallback is handed to
\* one task only; every task handed over is counted on its Counter until its
\* completion; and when the wait for the Counter has returned, each task, the
\* one on the fresh Fiber included, has run once.
FallbackAllocationWorks ==
    /\ ~crashed
    /\ \A t \in Threads : pc[t] \in {"reset", "enq", "fifo_push"} => loc[t].nf \in 1 .. nfib
    /\ \A f \in (PoolSize + 1) .. nfib : held[f] <= 1
    /\ \A c \in Counters :
          value[c] = Cardinality({i \in 1 .. ntask :
                        task[i].c = c /\ task[i].via # "none" /\ dec[i] = 0})
    /\ RootJoined => \A i \in 1 .. ntask : ran[i] = 1 /\ dec[i] = 1

\* The pool was empty at an allocation, and the join has returned with all
\* PoolSize + 1 tasks run.
FallbackTaskRan ==
    /\ RootJoined
    /\ nfib > PoolSize
    /\ ntask = PoolSize + 1
    /\ \A i \in 1 .. ntask : ran[i] = 1

\* Thread t takes the step.
Moved(t) ==
    \/ pc'[t] # pc[t] \/ rt'[t] # rt[t] \/ ctx'[t] # ctx[t]
    \/ t = 0 /\ cur[t] = Null /\ rootip' # rootip

\* C20: wait_for_counter(C) called while C is 0 returns at once and changes
\* nothing: the caller goes on with its next operation, no task is taken or
\* run, on_idle is not called, the calling fiber is neither suspended nor
\* registered, and queues, waiting lists, Counters and the pool are as before.
WaitAtZeroIsNoOp ==
    [][\A t \in Threads :
         (AtOp(t, {"wait"}) /\ value[CurOp(t).c] = 0 /\ Moved(t)) =>
            /\ UNCHANGED << stack, prog, value, wlist, fib, nfib, phead, queue, fifo, mtx, running,
                            tsched, workers, cur, ctx, loc, task, ntask, crashed, hist, note >>
            /\ IF cur[t] = Null
               THEN rootip' = rootip + 1 /\ pc'[t] = "run" /\ rt' = rt
               ELSE rootip' = rootip /\ rt' = [rt EXCEPT ![t].ip = @ + 1]]_vars

\* The root's wait (with an on_idle callback) and a fiber's wait have both
\* been made at 0 and have returned: the task went through without having
\* been suspended.
WaitedAtZero ==
    /\ RootJoined
    /\ prog[rootip - 1].a = 1
    /\ \A c \in Counters : value[c] = 0
    /\ \E i \in 1 .. ntask :
          task[i].k = K_WAITER /\ ran[i] = 1 /\ Cardinality(where[i]) = 1 /\ i \notin spurious

\* Thread t is inside submit_main_thread_task, its fiber primed and counted.
Submitting(t) == ~crashed /\ pc[t] \in {"enq", "fifo_push"} /\ CurOp(t).op = "submit"

\* C21: submit_main_thread_task pushes the new fiber on Worker 0's queue
\* exactly when the calling thread is bound as Worker 0; any other caller
\* (another worker, an unbound thread) takes the mutex and appends the fiber
\* to the main-thread FIFO.  The fiber is never put on another worker's queue.
SubmitPlacement ==
    [][\A t \in Threads :
         (Submitting(t) /\ Moved(t)) =>
            /\ \A w \in Threads \ {0} : queue'[w] = queue[w]
            /\ IF tsched[t] /\ t = 0
               THEN /\ queue'[0] = Append(queue[0], loc[t].nf)
                    /\ fifo' = fifo /\ mtx' = mtx
                    /\ pc'[t] # "fifo_push"
               ELSE /\ queue'[0] = queue[0]
                    /\ IF pc[t] = "enq"
                       THEN mtx = Null /\ mtx' = t + 1 /\ fifo' = fifo /\ pc'[t] = "fifo_push"
                       ELSE mtx = t + 1 /\ mtx' = Null /\ fifo' = Append(fifo, loc[t].nf)]_vars

\* The three callers have submitted and their tasks have run: the main thread
\* before it was bound, the main thread bound as Worker 0, and a closure run
\* by another worker.
SubmittedEveryWay ==
    /\ \E i \in 1 .. ntask : task[i].via = "queue0" /\ task[i].by = 0 /\ ran[i] = 1
    /\ \E i \in 1 .. ntask : task[i].via = "fifo" /\ task[i].by = 0 /\ ran[i] = 1
    /\ \E i \in 1 .. ntask :
          /\ task[i].via = "fifo" /\ task[i].by # 0 /\ ran[i] = 1
          /\ \A w \in where[task[i].by] : w[1] # 0

\* Thread t is inside spawn, ParallelFor, submit_main_thread_task,
\* init_main_thread_worker or stop, or in pump_main_thread_tasks between two
\* tasks.
InPublicCall(t) ==
    /\ ~crashed
    /\ \/ pc[t] \in {"pop_cas", "reset", "enq", "fifo_push", "pumpA", "pumpB"}
       \/ AtOp(t, {"init", "stop", "pump"})
       \/ AtOp(t, {"spawn", "submit", "pfor"}) /\ ntask < MaxTasks

\* C22: spawn, ParallelFor, submit_main_thread_task, pump_main_thread_tasks,
\* init_main_thread_worker and stop never wait for another thread or task: a
\* thread inside one of them can always take its next step, whatever the
\* other threads do or do not do.
PublicApiNeverWaits == \A t \in Threads : InPublicCall(t) => ENABLED Step(t)

\* Thread t is about to access Counter c from execute_task's registration or
\* from fiber_entry_stub's drain.
AboutToAccess(t, c) ==
    /\ pc[t] \in {"fin_xchg", "reg_cas", "reg_check", "reg_xchg"}
    /\ loc[t].c = c

\* C23: once wait_for_counter(C) has returned to its caller, no thread still
\* accesses C for the tasks joined: the finishing task's exchange of C's
\* waiting list and a registering worker's re-check of C's value do not come
\* after the root waiter has returned or the registered fiber has been resumed.
NoAccessAfterWaitReturns ==
    /\ RootJoined => \A t \in Threads : ~AboutToAccess(t, prog[rootip - 1].c)
    /\ \A t \in Threads :
          pc[t] \in {"reg_check", "reg_xchg"} => \A u \in Threads : cur[u] # loc[t].f

\* C24: a task submitted through submit_main_thread_task by code running on
\* Worker 0 is executed by the main thread only: no other worker obtains it
\* from Worker 0's queue through steal_task.
PinnedOnQueueStaysOnMain ==
    \A i \in TaskIds : task[i].via = "queue0" => \A w \in where[i] : w[1] = 0

OnOwnStack(f) == \E t \in Threads : cur[t] = f /\ pc[t] # "post"

\* Fiber f is on a Counter's waiting list, or on a list a thread has taken
\* and is waking.
OnWaitingList(f) ==
    \/ \E c \in Counters : Occ(WaitChain(wlist[c], nfib + 1), f) > 0
    \/ \E t \in Threads :
          pc[t] \in {"fin_wake", "reg_wake"} /\ Occ(WaitChain(loc[t].wl, nfib + 1), f) > 0

\* C26: a fiber that calls wait_for_counter only records the Counter in
\* pending_wait_counter and switches out; the worker registers it after the
\* switch back.  So a fiber that is executing on its own stack is on no
\* waiting list and cannot be resumed by another worker, and the thread that
\* pushes a fiber on a waiting list is on its worker stack.
RegisteredAfterSwitch ==
    /\ \A f \in 1 .. nfib : OnOwnStack(f) => (~OnWaitingList(f) /\ ~Ready(f))
    /\ \A t \in Threads :
          pc[t] \in {"reg_cas", "reg_check", "reg_xchg", "reg_wake"} => cur[t] = Null

\* In how many places the suspended fiber f is on its way from the switch
\* out to the switch back in: being registered by the worker that ran it, on
\* a waiting list, on a list a thread has taken and is waking, in a ready
\* queue or the FIFO, in the hand of a thread about to switch to it.
WakePlaces(f) ==
    Cardinality({t \in Threads : pc[t] \in {"post", "reg_cas"} /\ loc[t].f = f})
    + Cardinality({c \in Counters : Occ(WaitChain(wlist[c], nfib + 1), f) > 0})
    + Cardinality({t \in Threads : pc[t] \in {"fin_wake", "reg_wake"}
                                     /\ Occ(WaitChain(loc[t].wl, nfib + 1), f) > 0})
    + Occ(fifo, f)
    + Cardinality({t \in Threads : Occ(queue[t], f) > 0})
    + Cardinality({t \in Threads : pc[t] = "exec" /\ loc[t].f = f})

\* The fibers that hold the suspended frame of task w.
FramesOf(w) == {f \in 1 .. nfib : fib[f].rsp.task = w /\ fib[f].rsp.ip > 0}

SwitchBackRegistersOrFrees ==
    \A t \in Threads :
       /\ (~crashed /\ pc[t] = "post") =>
             /\ (fib[loc[t].f].pend # Null) # fib[loc[t].f].fin
             /\ cur[t] = loc[t].f
       /\ pc[t] \in {"reg_cas", "reg_check", "reg_xchg", "reg_wake"} => cur[t] = Null
       /\ pc[t] = "free_cas" =>
             /\ cur[t] = Null
             /\ fib[loc[t].f].fin /\ fib[loc[t].f].work = Null
             /\ fib[loc[t].f].rsp = Finished /\ fib[loc[t].f].pend = Null
             /\ ~OnWaitingList(loc[t].f) /\ ~Ready(loc[t].f)
             /\ \A u \in Threads : cur[u] # loc[t].f

\* C30: the free-list loses no fiber.  In every interleaving of push and pop
\* the list reachable from head holds exactly the fibers that were pushed and
\* not popped since, each once: a pop that succeeds with a next_pool read
\* earlier unlinks nothing but the fiber it returns.
FreeListLosesNoFiber ==
    \A f \in 1 .. nfib :
       Occ(PoolChain(phead, nfib + 1), f) = IF held[f] = 0 THEN 1 ELSE 0

\* C29: while the scheduler is being destroyed no thread pops, steals from or
\* otherwise uses a Worker or its queue after that Worker has been deleted:
\* every thread that can reach a Worker, as its own or as a steal victim, has
\* left worker_loop before the Worker is deleted.
NoAccessAfterDelete ==
    /\ ~note.dead
    /\ \A t \in Threads :
          /\ pc[t] \in {"loop_pop", "wait_pop"} => workers[WorkerIndex(t)]
          /\ pc[t] = "steal" => workers[Victim(WorkerIndex(t), loc[t].i)]

\* Thread t takes the step: its position or its locals change.
Acting(t) == Moved(t) \/ loc'[t] # loc[t]

\* C31: every push and pop on Worker i's queue is done by the thread of
\* Worker i (spawn, the wake-up pushes, the pump and the root wait use the
\* calling thread's own index, index 0 on a thread without scheduler
\* context); another thread changes that queue through steal only, also when
\* the fiber it runs was suspended on another worker.
OwnerPushesAndPops ==
    [][\A i \in Threads : queue'[i] # queue[i] =>
          /\ \E t \in Threads : Acting(t)
          /\ \A t \in Threads : Acting(t) =>
                IF pc[t] = "steal"
                THEN i # t /\ queue'[i] = QueueSteal(queue[i])
                ELSE /\ i = t
                     /\ \/ queue'[i] = QueuePop(queue[i])
                        \/ \E f \in 1 .. nfib : queue'[i] = QueuePush(queue[i], f)]_vars

\* A fiber that was suspended after running on thread 0 is in Worker 1's
\* queue, pushed there by thread 1's wake-up, and thread 0 has work of its
\* own queued.
MigratedAndPushed ==
    \E f \in 1 .. nfib :
       /\ Occ(queue[1], f) > 0
       /\ fib[f].rsp.ip > 0
       /\ \E w \in where[fib[f].rsp.task] : w[1] = 0

\* Largest number of workers for which steal_task's probe order is examined.
MaxWorkers == 4

\* steal_task(my_idx) with num_threads = n: the victims of its loop
\* for (i = 1; i < n; ++i), victim = (my_idx + i) % n, in the order probed.
StealProbes(my, n) == [i \in 1 .. (n - 1) |-> (my + i) % n]

PumpStartsFifoInOrder ==
    \A k \in DOMAIN fifo :
       LET f == fifo[k] IN
       /\ fib[f].work # Null
       /\ task[fib[f].work].via = "fifo"
       /\ fib[f].rsp = Entry
       /\ ran[fib[f].work] = 0
       /\ \A j \in DOMAIN fifo : j # k => fifo[j] # f

\* Thread t is on the stack of the fiber that its execute_task switched
\* into: inside the work closure or in fiber_entry_stub after it.
InFiber(t) == rt[t].task # 0 \/ pc[t] \in {"fin_sub", "fin_xchg", "fin_wake"}

\* C34: on every thread t_current_fiber is null while scheduler loop code
\* runs (worker_loop, the pump, the root wait, execute_task after the switch
\* back) and is f exactly while fiber f executes on the thread, also when f
\* was suspended on one worker and resumed on another; so wait_for_counter
\* suspends exactly when it is called from inside a fiber.
CurrentFiberTracksExecution ==
    /\ [](\A t \in Threads :
            IF InFiber(t)
            THEN cur[t] # Null /\ cur[t] = loc[t].f
            ELSE cur[t] = Null \/ (pc[t] = "post" /\ cur[t] = loc[t].f))
    /\ [][\A t \in Threads :
            (AtOp(t, {"wait"}) /\ Acting(t) /\ ~AlreadyZero(CurOp(t).c)) =>
               IF InFiber(t)
               THEN /\ pc'[t] = "post" /\ ctx'[t] = ctx[t]
                    /\ fib'[loc[t].f].pend = CurOp(t).c
               ELSE /\ pc'[t] = "wait_loop" /\ ctx'[t] = "wait_loop"
                    /\ fib' = fib]_vars

\* While the root context is in its wait loop, a task that suspended on the
\* main thread goes on after its wait on thread 1.
ResumedElsewhere ==
    /\ ~crashed /\ ctx[0] = "wait_loop"
    /\ pc[1] = "run" /\ rt[1].ip > 1
    /\ cur[1] = loc[1].f
    /\ \E w \in where[rt[1].task] : w[1] = 0

\* C35: wait_for_counter decides whether the caller is still waiting in the
\* same way in both contexts, for every value of the Counter, the negative
\* ones reachable through Counter::fetch_sub and Counter::store included:
\* at a value at which a registered fiber is kept suspended the root loop
\* keeps waiting too.
WaitDecisionsAgree ==
    \A c \in Counters :
       (wlist[c] # Null /\ Quiescent(c) /\ FiberStillWaiting(value[c])) =>
          RootStillWaiting(value[c])

\* ------------------------------------------------- Fiber::reset: the stack
\* top &= ~0xF
AlignDown16(a) == a - (a % 16)

\* #ifdef _WIN64: top -= 40 (shadow space and pad); Linux: top -= 8
TopReduction(os) == IF os = "win64" THEN 40 ELSE 8

\* top = stack_mem.data() + stack_mem.size(), aligned and reduced
ResetTop(st) == AlignDown16(st.base + st.size) - TopReduction(st.os)

\* *(--ptr) = entry_fn, then eight times *(--ptr) = nullptr
ResetSlots(top) ==
    { [addr |-> top - 8, val |-> "entry_fn"] }
    \cup { [addr |-> top - 8 - 8 * i, val |-> "null"] : i \in 1 .. 8 }

\* byte_ptr = ptr - 160; rsp = byte_ptr
ResetRsp(top) == top - 8 - 8 * 8 - 160

\* The n bytes from lo on are bytes of stack_mem.
InBuffer(st, lo, n) == st.base <= lo /\ lo + n <= st.base + st.size

\* Fiber::reset on a new or a used Fiber.  A store through ptr outside
\* stack_mem is undefined: it lands in the neighbouring memory or faults.
StackReset ==
    /\ stack.at \in {"new", "entry"}
    /\ LET top == ResetTop(stack)
           out == \E s \in ResetSlots(top) : ~InBuffer(stack, s.addr, 8)
       IN  \E next \in (IF out THEN {"reset", "fault"} ELSE {"reset"}) :
              stack' = [stack EXCEPT !.at = next, !.rsp = ResetRsp(top),
                                     !.slots = ResetSlots(top), !.oob = out,
                                     !.sp = 0, !.ip = "none"]
    /\ UNCHANGED << prog, rootip, value, wlist, fib, nfib, phead, queue, fifo, mtx,
                    running, workers, tsched, cur, pc, ctx, loc, rt, task, ntask,
                    crashed, ran, dec, wz, spurious, held, calls, where, loaded, note >>

\* bud_switch_context(&t_worker_rsp, f->rsp) into a fiber that has not run:
\* the ten XMM registers are loaded from the 160 bytes at rsp, the eight
\* registers popped, and ret pops the return address: the word reset stored
\* there.  Loading from bytes outside stack_mem is undefined as well.
StackSwitch ==
    /\ stack.at = "reset"
    /\ \E next \in (IF InBuffer(stack, stack.rsp, 160 + 8 * 8 + 8)
                     THEN {"entry"} ELSE {"entry", "fault"}) :
          stack' = [stack EXCEPT !.at = next,
                                 !.sp = stack.rsp + 160 + 8 * 8 + 8,
                                 !.ip = (CHOOSE s \in stack.slots :
                                           s.addr = stack.rsp + 160 + 8 * 8).val]
    /\ UNCHANGED << prog, rootip, value, wlist, fib, nfib, phead, queue, fifo, mtx,
                    running, workers, tsched, cur, pc, ctx, loc, rt, task, ntask,
                    crashed, ran, dec, wz, spurious, held, calls, where, loaded, note >>

\* Fibers of every size at every alignment of stack_mem, on both platforms;
\* the scheduler is idle.
InitReset ==
    /\ InitSched({ << >> })
    /\ \E off \in 0 .. MaxBaseOffset, size \in 0 .. MaxStackSize, os \in {"win64", "linux"} :
          stack = NewStack(4096 + off, size, os)

SpecReset == InitReset /\ [][StackReset \/ StackSwitch]_vars

ResetLeavesNoStaleState ==
    /\ [][\A t \in Threads :
            (pc[t] = "reset" /\ pc'[t] = "enq") =>
               fib'[loc[t].nf] =
                  [work |-> loc[t].id, sig |-> task'[loc[t].id].c, fin |-> FALSE,
                   nw |-> Null, np |-> Null, pend |-> Null, rsp |-> Entry]]_vars
    /\ [](\A f \in 1 .. nfib :
            (/\ fib[f].work # Null /\ fib[f].rsp = Entry
             /\ \A t \in Threads : cur[t] # f /\ (pc[t] = "post" => loc[t].f # f)) =>
               /\ ~fib[f].fin
               /\ fib[f].pend = Null /\ fib[f].nw = Null
               /\ fib[f].sig = task[fib[f].work].c)

\* The fiber handed out first carries a later task: it has been used,
\* finished and freed, and reset again.
RecycledFiberReset ==
    \E t \in Threads :
       /\ pc[t] = "enq" /\ loc[t].nf = PoolSize /\ loc[t].id > 1
       /\ ran[1] = 1
       /\ fib[PoolSize].work = loc[t].id /\ ~fib[PoolSize].fin
       /\ fib[PoolSize].np = Null
====
